---------------------------- MODULE Spec2Model ----------------------------
(***************************************************************************)
(* State-machine model of the portfolio control board:                     *)
(*   App (App.tsx), DialNavigation, Knob, VerticalSlider, ToggleSwitch,    *)
(*   ProjectContent and DisplayScreen.                                     *)
(*                                                                         *)
(* Units.  Control values are JavaScript numbers in [0,100]; they are      *)
(* held here as integers counting hundredths (33.33 is 3333).  Angles are  *)
(* held in millidegrees and track offsets in hundredths of a pixel, so     *)
(* that every conversion of the code is exact on the inputs enumerated.    *)
(*                                                                         *)
(* React.  A state setter takes effect at once on the component's state    *)
(* (updates are queued and applied in order, which is the same thing), but *)
(* an event handler reads the props and state of the render in which it    *)
(* was created (or, for a listener added in useEffect, registered).  The   *)
(* variable "rendered" is that snapshot; the action Render refreshes it.   *)
(* React does not promise that a render and its effects run between two    *)
(* input events, so Render is an action of its own.                        *)
(***************************************************************************)
EXTENDS Integers, Sequences, FiniteSets, TLC

\* ------------------------------------------------------------------ units

Hundredths(x) == x * 100
Mdeg(deg) == deg * 1000

Max(a, b) == IF a >= b THEN a ELSE b
Min(a, b) == IF a <= b THEN a ELSE b

\* JavaScript's % keeps the sign of the dividend.
JsRem(a, n) == IF a >= 0 THEN a % n ELSE 0 - ((0 - a) % n)

\* The value Math.max(0, Math.min(100, 0/0)) of a division of zero by zero.
NaN == -1

\* ------------------------------------------------------------------ bounds

\* Input events delivered in one behaviour.
MaxEvents == 4

\* Items of the longest dial.
MaxTotal == 8

\* ------------------------------------------------------------------ data

\* App.tsx: the mock project list (type and hasTimeline of each record).
projects ==
  << [type |-> "about",   hasTimeline |-> FALSE],
     [type |-> "project", hasTimeline |-> TRUE],
     [type |-> "project", hasTimeline |-> TRUE],
     [type |-> "project", hasTimeline |-> TRUE],
     [type |-> "project", hasTimeline |-> TRUE],
     [type |-> "project", hasTimeline |-> FALSE],
     [type |-> "project", hasTimeline |-> TRUE] >>

projectCount == Len(projects)

\* projects[i] of the code, whose indices start at 0.
ProjectAt(i) == projects[i + 1]

Knobs == {"architecture", "productDesign", "software"}
Sliders == {"DETAIL", "STAGE"}
Toggles == {"viewMode", "showMetadata"}

EmphasisKeys == {"architectureEmphasis", "productDesignEmphasis", "softwareEmphasis"}
NumericKeys == EmphasisKeys \cup {"detailDepth", "timelineProgress"}
ControlKeys == NumericKeys \cup {"viewMode", "showMetadata"}

\* handleKnobChange: key = `${discipline}Emphasis`.
KnobKey(discipline) ==
  CASE discipline = "architecture"  -> "architectureEmphasis"
    [] discipline = "productDesign" -> "productDesignEmphasis"
    [] discipline = "software"      -> "softwareEmphasis"

\* The control-state key each VerticalSlider instance is wired to.
SliderKey(label) ==
  CASE label = "DETAIL" -> "detailDepth"
    [] label = "STAGE"  -> "timelineProgress"

\* useState initial value of controls.
InitialControls ==
  [ architectureEmphasis  |-> 3333,
    productDesignEmphasis |-> 3333,
    softwareEmphasis      |-> 3333,
    viewMode              |-> "hero",
    showMetadata          |-> FALSE,
    detailDepth           |-> Hundredths(100),
    timelineProgress      |-> Hundredths(100) ]

\* The styled height of a slider track, 192px.
TrackHeightStyled == 19200

\* ------------------------------------------------------------------ inputs

\* e.deltaY of a wheel event.
DeltaYs == {-100, 0, 100}

\* Math.atan2(deltaY, deltaX) of the pointer about a knob's centre, in
\* millidegrees, in (-180, 180].
PointerAngles == {Mdeg(-90) - 3600, Mdeg(-90), Mdeg(-90) + 3600, Mdeg(180)}

\* rect.bottom - clientY of a pointer event on a slider, in 1/100 px.
PointerOffsets == {-2400, 0, 3840, 9600, 21600}

\* ------------------------------------------------------------------ pure functions

\* Millidegrees per hundredth of a value: 360 degrees over the range 100.
MdegPerHundredth == Mdeg(360) \div Hundredths(100)

\* Knob.valueToAngle: (val / 100) * 360.
valueToAngle(val) == val * MdegPerHundredth

\* angleToValue without the reduction modulo 360.
angleToValueUnnormalized(angle) == angle \div MdegPerHundredth

\* Knob.angleToValue.
angleToValue(angle) ==
  LET r == JsRem(angle, Mdeg(360))
      normalized == IF r < 0 THEN r + Mdeg(360) ELSE r
  IN  normalized \div MdegPerHundredth

\* Knob.handleMouseMove: the angle handed to angleToValue.
pointerToAngle(atan2) ==
  LET angleDeg == atan2 + Mdeg(90)
  IN  IF angleDeg < 0 THEN angleDeg + Mdeg(360) ELSE angleDeg

\* handleWheel without the clamp to [0,100].
wheelNewValueUnclamped(value, deltaY) ==
  value + (IF deltaY > 0 THEN 0 - Hundredths(2) ELSE Hundredths(2))

\* Knob.handleWheel: newValue.
wheelNewValue(value, deltaY) ==
  LET delta == IF deltaY > 0 THEN 0 - Hundredths(2) ELSE Hundredths(2)
  IN  Max(0, Min(Hundredths(100), value + delta))

\* VerticalSlider.updateValue: percentage, for offset = rect.bottom - clientY
\* and height = rect.height.  A zero height divides by zero: the quotient is
\* +Infinity, -Infinity or NaN, and max/min keep NaN.
positionToValue(offset, height) ==
  IF height = 0
  THEN IF offset = 0 THEN NaN
       ELSE IF offset > 0 THEN Hundredths(100) ELSE 0
  ELSE Max(0, Min(Hundredths(100), (offset * Hundredths(100)) \div height))

\* An updater that keeps the three emphasis values summing to 100.
updateControlRescaling(prev, key, value) ==
  IF key \in EmphasisKeys
  THEN [k \in DOMAIN prev |->
          IF k = key THEN value
          ELSE IF k \in EmphasisKeys THEN (Hundredths(100) - value) \div 2
          ELSE prev[k]]
  ELSE [prev EXCEPT ![key] = value]

\* App.updateControl's updater: prev => ({ ...prev, [key]: value }).
updateControl(prev, key, value) == [prev EXCEPT ![key] = value]

\* Forward navigation without the wrap to the first item.
nextForwardNoWrap(activeIndex) == activeIndex + 1

\* DialNavigation.handleWheel, deltaY > 0.
nextForward(activeIndex) == (activeIndex + 1) % projectCount

\* DialNavigation.handleWheel, otherwise: onProjectChange(activeIndex - 1) when
\* activeIndex > 0, and no call (the state keeps its value) when it is 0.
nextBackward(activeIndex, current) ==
  IF activeIndex > 0 THEN activeIndex - 1 ELSE current

\* Math.round of a non-negative value.
MathRound(value) == (value + 50) \div 100

\* handleKnobInteraction: disciplineNames.
disciplineNames(discipline) ==
  CASE discipline = "architecture"  -> "ARCH"
    [] discipline = "productDesign" -> "PROD"
    [] discipline = "software"      -> "SOFT"

\* handleKnobInteraction: `${Math.round(value)}%`.
knobControlValue(value) == ToString(MathRound(value)) \o "%"

stages == << "CONCEPT", "DEVELOP", "REFINE", "BUILD", "FINAL" >>

\* handleSliderInteraction with Math.floor in place of Math.ceil.
sliderControlValueFloor(label, value) ==
  IF label = "DETAIL"
  THEN IF value = NaN THEN "NaN/5"
       ELSE ToString(value \div 2000) \o "/5"
  ELSE IF value = NaN THEN "undefined"
       ELSE stages[((value * (Len(stages) - 1)) \div Hundredths(100)) + 1]

\* handleSliderInteraction: the string handed to setControlValue
\* ("undefined" stands for stages[NaN]).
sliderControlValue(label, value) ==
  IF label = "DETAIL"
  THEN IF value = NaN THEN "NaN/5"
       ELSE ToString((value + 1999) \div 2000) \o "/5"
  ELSE IF value = NaN THEN "undefined"
       ELSE stages[((value * (Len(stages) - 1)) \div Hundredths(100)) + 1]

\* DialNavigation: timelineDisabled for a rendered activeIndex.
timelineDisabled(activeIndex) == ~ProjectAt(activeIndex).hasTimeline

\* A quotient the code computes in floating point, kept exact as a pair.
\* A denominator of 0 is a division by zero: n/0 is an infinity of the sign
\* of n, and 0/0 is JavaScript's NaN.
Quotient(n, d) == [num |-> n, den |-> d]
Defined(q) == q.den # 0

\* n * q, n - q and -q in JavaScript's arithmetic: 0 * Infinity is NaN, and
\* NaN and the infinities absorb a finite term.
Times(n, q) ==
  IF Defined(q) THEN Quotient(n * q.num, q.den)
  ELSE IF n = 0 THEN Quotient(0, 0)
  ELSE Quotient(IF n > 0 THEN q.num ELSE 0 - q.num, 0)
Minus(n, q) ==
  IF Defined(q) THEN Quotient(n * q.den - q.num, q.den)
  ELSE Quotient(0 - q.num, 0)
Negated(q) == Quotient(0 - q.num, q.den)

\* getDialRotation, getLabelPosition: angleStep = 180 / (total - 1).
angleStep(total) == Quotient(180, total - 1)

\* getDialRotation: itemAngle; getLabelPosition: angleDeg.  In degrees.
itemAngle(index, total) == Minus(90, Times(index, angleStep(total)))

\* DialNavigation.getDialRotation: -itemAngle.
getDialRotation(activeIdx, total) == Negated(itemAngle(activeIdx, total))

\* ------------------------------------------------------------------ ProjectContent

\* ProjectContent: total, with one term left out.
emphasisTotalOfTwo(c) == c.architectureEmphasis + c.productDesignEmphasis

\* ProjectContent: total = architectureEmphasis + productDesignEmphasis +
\* softwareEmphasis.
emphasisTotal(c) ==
  c.architectureEmphasis + c.productDesignEmphasis + c.softwareEmphasis

\* ProjectContent: archWidth, prodWidth, softWidth = (emphasis / total) * 100,
\* in percent.
columnWidth(c, key) == Quotient(c[key] * 100, emphasisTotal(c))

isAboutPage(project) == project.type = "about"

\* ProjectContent: the thresholds on detailDepth.
showOverview(c) == c.detailDepth >= Hundredths(20)
showColumns(c) == c.detailDepth >= Hundredths(40)
showProcessImages(c) == c.detailDepth >= Hundredths(60)
showSpecs(c) == c.detailDepth >= Hundredths(80)

\* ProjectContent: what of the four tiers the returned tree contains.
overviewVisible(project, c) == showOverview(c)
columnsVisible(project, c) == showColumns(c)
processVisibleOnAbout(project, c) == showProcessImages(c)
processVisible(project, c) == showProcessImages(c) /\ ~isAboutPage(project)
specsVisible(project, c) == showSpecs(c) /\ ~isAboutPage(project)

\* getTimelineStage, with the first boundary at 25.
getTimelineStageQuarter(progress) ==
  IF progress < Hundredths(25) THEN "CONCEPT"
  ELSE IF progress < Hundredths(40) THEN "DEVELOPMENT"
  ELSE IF progress < Hundredths(60) THEN "REFINEMENT"
  ELSE IF progress < Hundredths(80) THEN "BUILD"
  ELSE "FINAL"

\* ProjectContent: getTimelineStage, for progress = controls.timelineProgress.
getTimelineStage(progress) ==
  IF progress < Hundredths(20) THEN "CONCEPT"
  ELSE IF progress < Hundredths(40) THEN "DEVELOPMENT"
  ELSE IF progress < Hundredths(60) THEN "REFINEMENT"
  ELSE IF progress < Hundredths(80) THEN "BUILD"
  ELSE "FINAL"


\* ------------------------------------------------------------------ state

VARIABLES
  activeProjectIndex,  \* App: useState(0)
  controls,            \* App: useState<ControlState>
  isHovering,          \* DialNavigation: useState(false)
  activeControl,       \* DialNavigation: useState<string | null>(null)
  controlValue,        \* DialNavigation: useState<string | null>(null)
  knobDragging,        \* Knob: isDragging, one per knob
  sliderDragging,      \* VerticalSlider: isDragging, one per slider
  rendered,            \* the props and state the registered handlers closed over
  pending,             \* the handler still to run in the current event dispatch
  buttonDown,          \* the mouse button, as the browser sees it
  trackHeight,         \* rect.height of a slider track, as layout reports it
  inOrder,             \* history: each update applied to the then-current value
  nEvents,             \* history: input events delivered so far
  idleMode,            \* DisplayScreen: useState(false)
  idleCycle,           \* DisplayScreen: useState(0)
  idleTimer,           \* DisplayScreen: the setTimeout of the first effect is pending
  cycleTimer,          \* DisplayScreen: the setInterval of the second effect is running
  sinceTick,           \* the interval has ticked and React has not rendered since
  total                \* DialNavigation: projects.length of the list it is given

\* The state and the timers of DisplayScreen.
display == << idleMode, idleCycle, idleTimer, cycleTimer, sinceTick >>

vars == << activeProjectIndex, controls, isHovering, activeControl, controlValue,
           knobDragging, sliderDragging, rendered, pending, buttonDown,
           trackHeight, inOrder, nEvents, idleMode, idleCycle, idleTimer,
           cycleTimer, sinceTick, total >>

Null == "null"
NoHandler == [kind |-> "none"]

\* What a render hands to the handlers it creates.
Snapshot ==
  [ activeIndex    |-> activeProjectIndex,
    isHovering     |-> isHovering,
    controls       |-> controls,
    knobDragging   |-> knobDragging,
    sliderDragging |-> sliderDragging,
    activeControl  |-> activeControl,
    controlValue   |-> controlValue,
    idleMode       |-> idleMode,
    idleCycle      |-> idleCycle ]

\* The state after the first render of a dial of t items that shows the
\* item at the given index, for the given control state and the track
\* height layout reports.
InitOf(index, c, h, t) ==
  /\ total = t
  /\ activeProjectIndex = index
  /\ controls = c
  /\ isHovering = FALSE
  /\ activeControl = Null
  /\ controlValue = Null
  /\ knobDragging = [k \in Knobs |-> FALSE]
  /\ sliderDragging = [s \in Sliders |-> FALSE]
  /\ idleMode = FALSE
  /\ idleCycle = 0
  /\ idleTimer = TRUE
  /\ cycleTimer = FALSE
  /\ sinceTick = FALSE
  /\ rendered = Snapshot
  /\ pending = NoHandler
  /\ buttonDown = FALSE
  /\ trackHeight = h
  /\ inOrder = [ activeIndex |-> index, knob |-> [k \in Knobs |-> c[KnobKey(k)]] ]
  /\ nEvents = 0

\* App hands DialNavigation its list of projects.
InitAt(index, c, h) == InitOf(index, c, h, projectCount)

\* App: useState(0), the About item is the active project at start.
InitBase(c, h) == InitAt(0, c, h)

\* The application as styled: every slider track is 192px high.
Init == InitBase(InitialControls, TrackHeightStyled)

\* An input event can be delivered: no dispatch is running, budget is left.
CanDeliver == pending = NoHandler /\ nEvents < MaxEvents

Delivered == nEvents' = nEvents + 1

\* ------------------------------------------------------------------ rendering

\* React re-renders and runs the effects: every handler now closes over the
\* current props and state, and DisplayScreen's two effects run when their
\* dependency differs from the one of the previous render.
\*   [activeControl]: the cleanup clears the timeout of the previous run;
\*     with a control active the effect calls setIdleMode(false), otherwise
\*     it starts the 2000ms timeout.
\*   [idleMode]: the cleanup clears the interval of the previous run; the
\*     effect starts the interval when this render's idleMode is true.
\* setIdleMode(false) is a state update made after this render: the render
\* that shows it, and stops the interval, is the next one.
Render ==
  /\ pending = NoHandler
  /\ rendered # Snapshot
  /\ rendered' = Snapshot
  /\ IF activeControl # rendered.activeControl
     THEN /\ idleTimer' = (activeControl = Null)
          /\ idleMode' = IF activeControl # Null THEN FALSE ELSE idleMode
     ELSE UNCHANGED << idleTimer, idleMode >>
  /\ cycleTimer' = IF idleMode # rendered.idleMode THEN idleMode ELSE cycleTimer
  /\ sinceTick' = FALSE
  /\ UNCHANGED << activeProjectIndex, controls, isHovering, activeControl,
                  controlValue, knobDragging, sliderDragging, pending,
                  buttonDown, trackHeight, inOrder, nEvents, idleCycle,
                  total >>

\* ------------------------------------------------------------------ DisplayScreen

\* The timeout fires with a callback that leaves idleMode as it is.
IdleTimerFiresIdly ==
  /\ pending = NoHandler
  /\ idleTimer
  /\ idleTimer' = FALSE
  /\ UNCHANGED << activeProjectIndex, controls, isHovering, activeControl,
                  controlValue, knobDragging, sliderDragging, rendered,
                  pending, buttonDown, trackHeight, inOrder, nEvents,
                  idleMode, idleCycle, cycleTimer, sinceTick, total >>

\* The 2000ms timeout of the first effect fires: setIdleMode(true).
IdleTimerFires ==
  /\ pending = NoHandler
  /\ idleTimer
  /\ idleTimer' = FALSE
  /\ idleMode' = TRUE
  /\ UNCHANGED << activeProjectIndex, controls, isHovering, activeControl,
                  controlValue, knobDragging, sliderDragging, rendered,
                  pending, buttonDown, trackHeight, inOrder, nEvents,
                  idleCycle, cycleTimer, sinceTick, total >>

\* setIdleCycle's updater: prev => (prev + 1) % 3.
nextCycle(prev) == (prev + 1) % 3

\* A tick of the 2000ms interval of the second effect.  The update of the
\* previous tick, 2000ms earlier, has been rendered by then.
IdleCycleTick ==
  /\ pending = NoHandler
  /\ cycleTimer
  /\ ~sinceTick
  /\ idleCycle' = nextCycle(idleCycle)
  /\ sinceTick' = TRUE
  /\ UNCHANGED << activeProjectIndex, controls, isHovering, activeControl,
                  controlValue, knobDragging, sliderDragging, rendered,
                  pending, buttonDown, trackHeight, inOrder, nEvents,
                  idleMode, idleTimer, cycleTimer, total >>

\* getDisplayContent: `0${currentProjectIndex}`, or 'AM' for the first item.
shortCode(currentProjectIndex) ==
  IF currentProjectIndex = 0 THEN "AM" ELSE "0" \o ToString(currentProjectIndex)

\* getDisplayContent: disciplines[idleCycle], as name and control-state key.
disciplines ==
  << [name |-> "ARCH", key |-> "architectureEmphasis"],
     [name |-> "PROD", key |-> "productDesignEmphasis"],
     [name |-> "SOFT", key |-> "softwareEmphasis"] >>

\* DisplayScreen.getDisplayContent, for the props and state of a render r.
\* A controlValue of "undefined" is the undefined of stages[NaN], which the
\* first test takes for false.
getDisplayContent(r) ==
  IF r.activeControl # Null /\ r.controlValue # Null /\ r.controlValue # "undefined"
  THEN [line1 |-> r.activeControl, line2 |-> r.controlValue]
  ELSE IF ~r.idleMode
  THEN [line1 |-> shortCode(r.activeIndex), line2 |-> ""]
  ELSE LET current == disciplines[r.idleCycle + 1]
       IN  [line1 |-> current.name,
            line2 |-> ToString(MathRound(r.controls[current.key])) \o "%"]

\* What the LCD shows: the content of the last render.
content == getDisplayContent(rendered)

\* ------------------------------------------------------------------ DialNavigation

\* onMouseEnter of the container.
MouseEnter ==
  /\ CanDeliver /\ ~isHovering
  /\ isHovering' = TRUE
  /\ Delivered
  /\ UNCHANGED << display, total, activeProjectIndex, controls, activeControl, controlValue,
                  knobDragging, sliderDragging, rendered, pending, buttonDown,
                  trackHeight, inOrder >>

\* onMouseLeave of the container.
MouseLeave ==
  /\ CanDeliver /\ isHovering
  /\ isHovering' = FALSE
  /\ Delivered
  /\ UNCHANGED << display, total, activeProjectIndex, controls, activeControl, controlValue,
                  knobDragging, sliderDragging, rendered, pending, buttonDown,
                  trackHeight, inOrder >>

\* The wheel listener the effect registered on the container; isHovering and
\* activeIndex are those of the render the effect ran for.
handleWheel(deltaY) ==
  /\ activeProjectIndex' =
       IF rendered.isHovering
       THEN IF deltaY > 0
            THEN nextForward(rendered.activeIndex)
            ELSE nextBackward(rendered.activeIndex, activeProjectIndex)
       ELSE activeProjectIndex
  /\ inOrder' = [inOrder EXCEPT !.activeIndex =
                   IF ~rendered.isHovering THEN inOrder.activeIndex
                   ELSE IF deltaY > 0
                   THEN (inOrder.activeIndex + 1) % projectCount
                   ELSE IF inOrder.activeIndex > 0
                        THEN inOrder.activeIndex - 1
                        ELSE inOrder.activeIndex]

\* A wheel event with the pointer over the dial, outside the knobs.
WheelOnDial(deltaY) ==
  /\ CanDeliver /\ isHovering
  /\ handleWheel(deltaY)
  /\ Delivered
  /\ UNCHANGED << display, total, controls, isHovering, activeControl, controlValue,
                  knobDragging, sliderDragging, rendered, pending, buttonDown,
                  trackHeight >>

\* A wheel event with the pointer over a knob.  The knob lies inside the
\* container: the event bubbles through the container's native listener
\* first, and React's delegated onWheel of the knob runs after it.
WheelOnKnob(discipline, deltaY) ==
  /\ CanDeliver /\ isHovering
  /\ handleWheel(deltaY)
  /\ pending' = [kind |-> "knobWheel", knob |-> discipline, deltaY |-> deltaY]
  /\ Delivered
  /\ UNCHANGED << display, total, controls, isHovering, activeControl, controlValue,
                  knobDragging, sliderDragging, rendered, buttonDown,
                  trackHeight >>

\* onClick of a project label.
LabelClick(index) ==
  /\ CanDeliver /\ isHovering /\ ~buttonDown
  /\ activeProjectIndex' = index
  /\ inOrder' = [inOrder EXCEPT !.activeIndex = index]
  /\ Delivered
  /\ UNCHANGED << display, total, controls, isHovering, activeControl, controlValue,
                  knobDragging, sliderDragging, rendered, pending, buttonDown,
                  trackHeight >>

\* ------------------------------------------------------------------ Knob

\* Knob.handleWheel, dispatched after the container's listener.  value is
\* the prop of the render that created the handler.
KnobWheel ==
  /\ pending.kind = "knobWheel"
  /\ LET key == KnobKey(pending.knob)
         newValue == wheelNewValue(rendered.controls[key], pending.deltaY)
     IN  /\ controls' = updateControl(controls, key, newValue)
         /\ inOrder' = [inOrder EXCEPT !.knob[pending.knob] =
                          wheelNewValue(inOrder.knob[pending.knob], pending.deltaY)]
  /\ pending' = NoHandler
  /\ UNCHANGED << display, total, activeProjectIndex, isHovering, activeControl, controlValue,
                  knobDragging, sliderDragging, rendered, buttonDown,
                  trackHeight, nEvents >>

\* Knob.handleMouseDown, with handleKnobInteraction(discipline, value, true):
\* the value shown is the one DialNavigation rendered the knob with.
KnobMouseDown(discipline) ==
  /\ CanDeliver /\ isHovering /\ ~buttonDown
  /\ buttonDown' = TRUE
  /\ knobDragging' = [knobDragging EXCEPT ![discipline] = TRUE]
  /\ activeControl' = disciplineNames(discipline)
  /\ controlValue' = knobControlValue(rendered.controls[KnobKey(discipline)])
  /\ Delivered
  /\ UNCHANGED << display, total, activeProjectIndex, controls, isHovering, sliderDragging,
                  rendered, pending, trackHeight, inOrder >>

\* The document mousemove listener of a knob whose effect ran with
\* isDragging true.
KnobMouseMove(discipline, atan2) ==
  /\ CanDeliver /\ rendered.knobDragging[discipline]
  /\ LET newValue == angleToValue(pointerToAngle(atan2))
     IN  /\ controls' = updateControl(controls, KnobKey(discipline), newValue)
         /\ inOrder' = [inOrder EXCEPT !.knob[discipline] = newValue]
  /\ Delivered
  /\ UNCHANGED << display, total, activeProjectIndex, isHovering, activeControl, controlValue,
                  knobDragging, sliderDragging, rendered, pending, buttonDown,
                  trackHeight >>

\* ------------------------------------------------------------------ VerticalSlider

\* VerticalSlider.handleMouseDown, with handleSliderInteraction(label, value,
\* true) and updateValue(e.clientY).  disabled is that of the render.
SliderMouseDown(label, offset) ==
  /\ CanDeliver /\ isHovering /\ ~buttonDown
  /\ buttonDown' = TRUE
  /\ IF label = "STAGE" /\ timelineDisabled(rendered.activeIndex)
     THEN UNCHANGED << controls, sliderDragging, activeControl, controlValue >>
     ELSE /\ sliderDragging' = [sliderDragging EXCEPT ![label] = TRUE]
          /\ activeControl' = label
          /\ controlValue' = sliderControlValue(label, rendered.controls[SliderKey(label)])
          /\ controls' = updateControl(controls, SliderKey(label),
                                       positionToValue(offset, trackHeight))
  /\ Delivered
  /\ UNCHANGED << display, total, activeProjectIndex, isHovering, knobDragging, rendered,
                  pending, trackHeight, inOrder >>

\* The document mousemove listener of a slider whose effect ran with
\* isDragging true: updateValue(e.clientY).
SliderMouseMove(label, offset) ==
  /\ CanDeliver /\ rendered.sliderDragging[label]
  /\ controls' = updateControl(controls, SliderKey(label),
                               positionToValue(offset, trackHeight))
  /\ Delivered
  /\ UNCHANGED << display, total, activeProjectIndex, isHovering, activeControl, controlValue,
                  knobDragging, sliderDragging, rendered, pending, buttonDown,
                  trackHeight, inOrder >>

\* ------------------------------------------------------------------ mouse button

\* A press that lands on no knob and no slider.
MouseDownElsewhere ==
  /\ CanDeliver /\ ~buttonDown
  /\ buttonDown' = TRUE
  /\ Delivered
  /\ UNCHANGED << display, total, activeProjectIndex, controls, isHovering, activeControl,
                  controlValue, knobDragging, sliderDragging, rendered, pending,
                  trackHeight, inOrder >>

AnyUpListener ==
  \/ \E k \in Knobs : rendered.knobDragging[k]
  \/ \E s \in Sliders : rendered.sliderDragging[s]

\* A release: every registered document mouseup listener runs handleMouseUp,
\* setIsDragging(false) and onInteractionChange(false).
MouseUp ==
  /\ CanDeliver /\ buttonDown
  /\ buttonDown' = FALSE
  /\ knobDragging' = [k \in Knobs |->
                        IF rendered.knobDragging[k] THEN FALSE ELSE knobDragging[k]]
  /\ sliderDragging' = [s \in Sliders |->
                          IF rendered.sliderDragging[s] THEN FALSE ELSE sliderDragging[s]]
  /\ activeControl' = IF AnyUpListener THEN Null ELSE activeControl
  /\ controlValue' = IF AnyUpListener THEN Null ELSE controlValue
  /\ Delivered
  /\ UNCHANGED << display, total, activeProjectIndex, controls, isHovering, rendered, pending,
                  trackHeight, inOrder >>

\* ------------------------------------------------------------------ ToggleSwitch

\* ToggleSwitch onClick: onChange(!value), value being the rendered prop.
ToggleClick(key) ==
  /\ CanDeliver /\ isHovering /\ ~buttonDown
  /\ controls' = updateControl(controls, key,
       IF key = "viewMode"
       THEN IF ~(rendered.controls.viewMode = "hero") THEN "hero" ELSE "breakdown"
       ELSE ~rendered.controls.showMetadata)
  /\ Delivered
  /\ UNCHANGED << display, total, activeProjectIndex, isHovering, activeControl, controlValue,
                  knobDragging, sliderDragging, rendered, pending, buttonDown,
                  trackHeight, inOrder >>

\* ------------------------------------------------------------------ specification

Next ==
  \/ Render
  \/ MouseEnter
  \/ MouseLeave
  \/ \E deltaY \in DeltaYs : WheelOnDial(deltaY)
  \/ \E k \in Knobs, deltaY \in DeltaYs : WheelOnKnob(k, deltaY)
  \/ KnobWheel
  \/ \E index \in 0 .. (projectCount - 1) : LabelClick(index)
  \/ \E k \in Knobs : KnobMouseDown(k)
  \/ \E k \in Knobs, a \in PointerAngles : KnobMouseMove(k, a)
  \/ \E s \in Sliders, o \in PointerOffsets : SliderMouseDown(s, o)
  \/ \E s \in Sliders, o \in PointerOffsets : SliderMouseMove(s, o)
  \/ MouseDownElsewhere
  \/ MouseUp
  \/ \E t \in Toggles : ToggleClick(t)

Spec == Init /\ [][Next]_vars

\* The inputs of the display's specification: two knobs, both sliders, one
\* toggle, one pointer position on each, both directions of the wheel, one
\* label.
DisplayKnobs == {"architecture", "software"}
DisplaySliders == {"DETAIL", "STAGE"}
DisplayToggles == {"showMetadata"}
DisplayDeltaYs == {-100, 100}
DisplayAngles == {Mdeg(180)}
DisplayOffsets == {9600}
DisplayLabels == {3}

\* The control board together with the timers of DisplayScreen.
NextDisplay ==
  \/ Render
  \/ MouseEnter
  \/ MouseLeave
  \/ \E deltaY \in DisplayDeltaYs : WheelOnDial(deltaY)
  \/ \E k \in DisplayKnobs, deltaY \in DisplayDeltaYs : WheelOnKnob(k, deltaY)
  \/ KnobWheel
  \/ \E index \in DisplayLabels : LabelClick(index)
  \/ \E k \in DisplayKnobs : KnobMouseDown(k)
  \/ \E k \in DisplayKnobs, a \in DisplayAngles : KnobMouseMove(k, a)
  \/ \E s \in DisplaySliders, o \in DisplayOffsets : SliderMouseDown(s, o)
  \/ \E s \in DisplaySliders, o \in DisplayOffsets : SliderMouseMove(s, o)
  \/ MouseDownElsewhere
  \/ MouseUp
  \/ \E t \in DisplayToggles : ToggleClick(t)
  \/ IdleTimerFires
  \/ IdleCycleTick

SpecDisplay == Init /\ [][NextDisplay]_vars

\* Scheduling: an event dispatch under way runs its remaining handler,
\* React renders a pending update, and a timer that stays armed fires.
SpecDisplayFair ==
  /\ SpecDisplay
  /\ WF_vars(KnobWheel)
  /\ WF_vars(Render)
  /\ WF_vars(IdleTimerFires)
  /\ WF_vars(IdleCycleTick)

\* ------------------------------------------------------------------ navigation claims

\* A wheel event with deltaY > 0 reaches the container's listener, and the
\* listener registered is one of a render that saw the pointer hovering.
ForwardScroll ==
  /\ rendered.isHovering
  /\ \E deltaY \in DeltaYs :
       /\ deltaY > 0
       /\ \/ WheelOnDial(deltaY)
          \/ \E k \in Knobs : WheelOnKnob(k, deltaY)

\* The same with deltaY < 0.
BackwardScroll ==
  /\ rendered.isHovering
  /\ \E deltaY \in DeltaYs :
       /\ deltaY < 0
       /\ \/ WheelOnDial(deltaY)
          \/ \E k \in Knobs : WheelOnKnob(k, deltaY)

\* C1: a forward scroll delivered while the pointer hovers the container sets
\* activeProjectIndex to (activeProjectIndex + 1) mod projectCount, whatever
\* the current index is.
ForwardScrollAdvances ==
  [][ForwardScroll =>
       activeProjectIndex' = (activeProjectIndex + 1) % projectCount]_vars

\* C2: a backward scroll sets activeProjectIndex to activeProjectIndex - 1
\* when it is positive and leaves it at 0 otherwise; it never takes index 0
\* to the last index.
BackwardScrollClamps ==
  [][BackwardScroll =>
       /\ activeProjectIndex' =
            IF activeProjectIndex > 0 THEN activeProjectIndex - 1 ELSE 0
       /\ activeProjectIndex = 0 => activeProjectIndex' # projectCount - 1]_vars

\* The index names a project, in the state and in what was rendered.
IndexInRange ==
  /\ activeProjectIndex \in 0 .. (projectCount - 1)
  /\ activeProjectIndex + 1 \in DOMAIN projects
  /\ rendered.activeIndex \in 0 .. (projectCount - 1)

\* C3: in every reachable state activeProjectIndex is an integer in
\* [0, projectCount-1], so projects[activeProjectIndex] is defined; and a
\* click on a label sets the index to that label's index, whatever the state.
IndexAlwaysValid ==
  /\ []IndexInRange
  /\ [][\A index \in 0 .. (projectCount - 1) :
          LabelClick(index) => activeProjectIndex' = index]_vars

\* C3 witness: a forward scroll at the last index has wrapped to the first
\* (the handler that ran was the one rendered for the last index).
ForwardWrapped ==
  /\ activeProjectIndex = 0
  /\ rendered.activeIndex = projectCount - 1
  /\ inOrder.activeIndex = 0

\* C4: state updates are applied in delivery order and none is lost: after n
\* forward scrolls from index k the index is (k + n) mod projectCount, and
\* after n wheel ticks on a knob its value is the clamped sum of the ticks,
\* also when an event is delivered before the re-render after the one before.
UpdatesAppliedInOrder ==
  /\ activeProjectIndex = inOrder.activeIndex
  /\ pending = NoHandler =>
       \A k \in Knobs : controls[KnobKey(k)] = inOrder.knob[k]

\* ------------------------------------------------------------------ control-state claims

\* C5: a set replaces exactly the field named by its key: a step that
\* changes one control field leaves the other six fields and
\* activeProjectIndex as they were.
SetReplacesOneField ==
  [][\A key \in ControlKeys :
       controls'[key] # controls[key] =>
         /\ \A other \in ControlKeys \ {key} : controls'[other] = controls[other]
         /\ activeProjectIndex' = activeProjectIndex]_vars

\* C5 witness: one emphasis value has been set and the other two still hold
\* their initial values.
OneEmphasisSet ==
  /\ controls.architectureEmphasis # InitialControls.architectureEmphasis
  /\ controls.productDesignEmphasis = InitialControls.productDesignEmphasis
  /\ controls.softwareEmphasis = InitialControls.softwareEmphasis

\* A direct call of the store's set operation, onControlChange(key, value),
\* on a numeric field.
SetValues == {0 - Hundredths(5), 0, Hundredths(50), Hundredths(100), Hundredths(150)}

SetControl(key, value) ==
  /\ controls' = updateControl(controls, key, value)
  /\ UNCHANGED << display, total, activeProjectIndex, isHovering, activeControl, controlValue,
                  knobDragging, sliderDragging, rendered, pending, buttonDown,
                  trackHeight, inOrder, nEvents >>

NextSet == \E key \in NumericKeys, value \in SetValues : SetControl(key, value)

\* The store on its own, driven by arbitrary set calls.
SpecSet == Init /\ [][NextSet]_vars

\* C6: a set call on a numeric field with a value below 0 or above 100 is
\* not rejected and stores the value clamped into [0,100].
SetStoresClamped ==
  [][\A key \in NumericKeys, value \in SetValues :
       SetControl(key, value) =>
         controls'[key] = Max(0, Min(Hundredths(100), value))]_vars

\* Every numeric control holds a number in [0,100].
ValuesInRange ==
  \A key \in NumericKeys :
    /\ controls[key] # NaN
    /\ controls[key] >= 0
    /\ controls[key] <= Hundredths(100)

\* C7: in every state reachable by knob drags, knob wheel ticks and slider
\* presses and drags, each numeric control is a number in [0,100]; a value
\* produced by a knob drag lies in [0,100).
ValuesStayInRange ==
  /\ []ValuesInRange
  /\ [][\A k \in Knobs, a \in PointerAngles :
          KnobMouseMove(k, a) =>
            /\ controls'[KnobKey(k)] >= 0
            /\ controls'[KnobKey(k)] < Hundredths(100)]_vars

\* C7 witness: a knob was dragged to 99 and a wheel tick up on it has been
\* clamped at the top of the range.
ClampedAtTop ==
  \E k \in Knobs :
    /\ controls[KnobKey(k)] = Hundredths(100)
    /\ inOrder.knob[k] = Hundredths(100)

\* C8: each wheel tick on a knob sets its value to clamp(value + 2, 0, 100)
\* or clamp(value - 2, 0, 100), according to the direction of the wheel (so
\* that +2 then -2 returns to a start of at most 98).
WheelTickAdjustsByTwo ==
  [][KnobWheel =>
       LET key == KnobKey(pending.knob)
           delta == IF pending.deltaY > 0 THEN 0 - Hundredths(2) ELSE Hundredths(2)
       IN  controls'[key] = Max(0, Min(Hundredths(100), controls[key] + delta))]_vars

\* ------------------------------------------------------------------ angle-value conversion

\* The knob's indicator angle read back as a value.
RoundTrip(discipline) ==
  /\ controls' = updateControl(controls, KnobKey(discipline),
                    angleToValue(valueToAngle(controls[KnobKey(discipline)])))
  /\ UNCHANGED << display, total, activeProjectIndex, isHovering, activeControl, controlValue,
                  knobDragging, sliderDragging, rendered, pending, buttonDown,
                  trackHeight, inOrder, nEvents >>

InitKnobMath ==
  \E v \in 0 .. Hundredths(100) :
    InitBase([InitialControls EXCEPT !.architectureEmphasis = v], TrackHeightStyled)

NextKnobMath == \E k \in Knobs : RoundTrip(k)

\* The conversion pair on every value of the range, in steps of 0.01.
SpecKnobMath == InitKnobMath /\ [][NextKnobMath]_vars

\* C9: for every v in [0,100], 100 included, angleToValue(valueToAngle(v)) = v
\* and valueToAngle(v) lies in [0,360).
RoundTripWholeRange ==
  \A k \in Knobs :
    LET v == controls[KnobKey(k)]
    IN  /\ angleToValue(valueToAngle(v)) = v
        /\ valueToAngle(v) >= 0
        /\ valueToAngle(v) < Mdeg(360)

\* C9 as amended: the round trip is the identity and the angle lies in
\* [0,360) for v in [0,100); at v = 100 the angle is 360 and reads back as 0.
RoundTripBelowTop ==
  \A k \in Knobs :
    LET v == controls[KnobKey(k)]
    IN  IF v < Hundredths(100)
        THEN /\ angleToValue(valueToAngle(v)) = v
             /\ valueToAngle(v) >= 0
             /\ valueToAngle(v) < Mdeg(360)
        ELSE /\ valueToAngle(v) = Mdeg(360)
             /\ angleToValue(valueToAngle(v)) = 0

\* C9 witness: the value 100 has been through the round trip and came back 0.
TopReadBackAsZero ==
  /\ inOrder.knob["architecture"] = Hundredths(100)
  /\ controls.architectureEmphasis = 0

\* ------------------------------------------------------------------ degenerate track

\* Layout reports a slider track of zero height.
InitZeroTrack == InitBase(InitialControls, 0)

SpecZeroTrack == InitZeroTrack /\ [][Next]_vars

\* C10: a slider press or drag on a track of zero height is a no-op: the
\* stored value is unchanged and no NaN is written to the control state.
ZeroTrackIsNoOp ==
  [][(/\ trackHeight = 0
      /\ \E s \in Sliders, o \in PointerOffsets :
           SliderMouseDown(s, o) \/ SliderMouseMove(s, o)) =>
       /\ controls' = controls
       /\ \A key \in NumericKeys : controls'[key] # NaN]_vars

\* ------------------------------------------------------------------ derived layout

\* Emphasis values and slider values the set calls below store: the ends of
\* the range, and both sides of every threshold of ProjectContent.
ContentEmphases == {0, 1, 3333, Hundredths(100)}
ContentLevels ==
  {0, 1999, Hundredths(20), 3999, Hundredths(40), 5999, Hundredths(60),
   7999, Hundredths(80), Hundredths(100)}

InitContent ==
  \E index \in 0 .. (projectCount - 1) :
    InitAt(index, InitialControls, TrackHeightStyled)

NextContent ==
  \/ \E key \in EmphasisKeys, value \in ContentEmphases : SetControl(key, value)
  \/ \E key \in {"detailDepth", "timelineProgress"}, value \in ContentLevels :
       SetControl(key, value)

\* ProjectContent as a function of the active project and the control
\* state: any project is shown, and the store takes in-range set calls.
SpecContent == InitContent /\ [][NextContent]_vars

\* C11: for every triple of emphasis values with a positive sum, each column
\* width is its value divided by the sum of the three, times 100; it lies in
\* [0,100]; and the three widths sum to 100.
ColumnWidthsNormalised ==
  LET sum == controls.architectureEmphasis + controls.productDesignEmphasis
               + controls.softwareEmphasis
      w(key) == columnWidth(controls, key)
  IN  sum > 0 =>
        /\ \A key \in EmphasisKeys :
             /\ w(key) = Quotient(controls[key] * 100, sum)
             /\ 0 <= w(key).num
             /\ w(key).num <= 100 * w(key).den
        /\ w("architectureEmphasis").num + w("productDesignEmphasis").num
             + w("softwareEmphasis").num = 100 * sum

\* C11 witness: set calls have left one column with the whole width but for
\* the share of a value of 0.01.
OneColumnDominates ==
  /\ controls.architectureEmphasis = Hundredths(100)
  /\ controls.productDesignEmphasis = 0
  /\ controls.softwareEmphasis = 1

\* C12: when the three emphasis values are all 0, the three column widths
\* are defined and each is a third of 100.
ZeroSumEqualThirds ==
  emphasisTotal(controls) = 0 =>
    \A key \in EmphasisKeys :
      LET w == columnWidth(controls, key)
      IN  Defined(w) /\ 3 * w.num = 100 * w.den

\* C13: on every project, the About item included, the overview is visible
\* iff detailDepth >= 20, the columns iff >= 40, the process documentation
\* iff >= 60 and the technical specifications iff >= 80.
TiersByDepthOnEveryProject ==
  LET project == ProjectAt(activeProjectIndex)
      d == controls.detailDepth
  IN  /\ overviewVisible(project, controls) <=> d >= Hundredths(20)
      /\ columnsVisible(project, controls) <=> d >= Hundredths(40)
      /\ processVisible(project, controls) <=> d >= Hundredths(60)
      /\ specsVisible(project, controls) <=> d >= Hundredths(80)

\* C13 as amended: the overview and the columns follow their thresholds on
\* every item; the process documentation and the technical specifications
\* follow theirs on every item but the About item (index 0), where neither
\* is ever visible.
TiersByDepthExceptAbout ==
  LET project == ProjectAt(activeProjectIndex)
      d == controls.detailDepth
  IN  /\ overviewVisible(project, controls) <=> d >= Hundredths(20)
      /\ columnsVisible(project, controls) <=> d >= Hundredths(40)
      /\ processVisible(project, controls) <=>
           (d >= Hundredths(60) /\ activeProjectIndex # 0)
      /\ specsVisible(project, controls) <=>
           (d >= Hundredths(80) /\ activeProjectIndex # 0)
      /\ activeProjectIndex # 0 =>
           /\ specsVisible(project, controls) => processVisible(project, controls)
           /\ processVisible(project, controls) => columnsVisible(project, controls)
           /\ columnsVisible(project, controls) => overviewVisible(project, controls)
           /\ d = Hundredths(100) =>
                /\ overviewVisible(project, controls)
                /\ columnsVisible(project, controls)
                /\ processVisible(project, controls)
                /\ specsVisible(project, controls)

\* C13 witness: the About item at a detail depth set to 60, with overview
\* and columns but no process documentation.
AboutAtProcessDepth ==
  /\ activeProjectIndex = 0
  /\ controls.detailDepth = Hundredths(60)
  /\ columnsVisible(ProjectAt(0), controls)
  /\ ~processVisible(ProjectAt(0), controls)

\* C14: the stage label is CONCEPT for timelineProgress < 20, DEVELOPMENT on
\* [20,40), REFINEMENT on [40,60), BUILD on [60,80) and FINAL on [80,100].
StageLabelByBand ==
  LET p == controls.timelineProgress
      label == getTimelineStage(p)
  IN  /\ (0 <= p /\ p < Hundredths(20)) => label = "CONCEPT"
      /\ (Hundredths(20) <= p /\ p < Hundredths(40)) => label = "DEVELOPMENT"
      /\ (Hundredths(40) <= p /\ p < Hundredths(60)) => label = "REFINEMENT"
      /\ (Hundredths(60) <= p /\ p < Hundredths(80)) => label = "BUILD"
      /\ (Hundredths(80) <= p /\ p <= Hundredths(100)) => label = "FINAL"

\* C14 witness: the progress has been set to the boundary 20, the first
\* value labelled DEVELOPMENT.
ProgressAtFirstBoundary ==
  /\ controls.timelineProgress = Hundredths(20)
  /\ getTimelineStage(controls.timelineProgress) = "DEVELOPMENT"

\* The readouts 'n/5' for n in the given set.
TierReadouts(tiers) == {ToString(n) \o "/5" : n \in tiers}

\* C15: for every detailDepth in [0,100], 0 included, the readout of the
\* DETAIL slider is 'tier/5' with tier an integer in 1..5.
DetailTierInOneToFive ==
  sliderControlValue("DETAIL", controls.detailDepth) \in TierReadouts(1 .. 5)

\* C15 as amended: the readout is 'k/5' for detailDepth in (20(k-1), 20k],
\* k in 1..5, and '0/5' for detailDepth 0.
DetailTierZeroAtZero ==
  LET d == controls.detailDepth
      readout == sliderControlValue("DETAIL", d)
  IN  /\ d = 0 => readout = "0/5"
      /\ \A k \in 1 .. 5 :
           (Hundredths(20) * (k - 1) < d /\ d <= Hundredths(20) * k) =>
             readout = ToString(k) \o "/5"

\* C15 witness: the detail depth has been set to 0 and reads '0/5'.
DetailReadsZero ==
  /\ controls.detailDepth = 0
  /\ sliderControlValue("DETAIL", controls.detailDepth) = "0/5"

\* ------------------------------------------------------------------ display

\* A knob or a slider is being dragged and is the active control, and the
\* LCD has been rendered since the last change of state.
KnobShown(k) ==
  knobDragging[k] /\ activeControl = disciplineNames(k) /\ rendered = Snapshot
SliderShown(s) ==
  sliderDragging[s] /\ activeControl = s /\ rendered = Snapshot

\* C16: while a knob or slider is interacted with, the LCD shows its label
\* on line 1 and on line 2 the formatting of the value the control state
\* holds now, not of the value at the start of the interaction.
LcdShowsCurrentValue ==
  /\ \A k \in Knobs :
       KnobShown(k) =>
         content = [line1 |-> disciplineNames(k),
                    line2 |-> knobControlValue(controls[KnobKey(k)])]
  /\ \A s \in Sliders :
       SliderShown(s) =>
         content = [line1 |-> s,
                    line2 |-> sliderControlValue(s, controls[SliderKey(s)])]

DisciplineLabels == {"ARCH", "PROD", "SOFT"}

\* The LCD is in idle-cycle mode: it shows a discipline of the cycle.
ShowsIdleCycle ==
  /\ rendered.idleMode
  /\ rendered.activeControl = Null
  /\ content.line1 \in DisciplineLabels

\* C17: with no control active and no interaction starting, the idle-entry
\* timer fires and the display enters idle-cycle mode; until then the LCD
\* shows the short code of the project ('AM', or '0' and the index); idle
\* mode is left only when an interaction has started, and the LCD then shows
\* the active control.
IdleEntry ==
  /\ [](activeControl = Null => <>(activeControl # Null \/ ShowsIdleCycle))
  /\ []((rendered.activeControl = Null /\ ~rendered.idleMode) =>
          content = [line1 |-> IF rendered.activeIndex = 0 THEN "AM"
                               ELSE "0" \o ToString(rendered.activeIndex),
                     line2 |-> ""])
  /\ [][(idleMode /\ ~idleMode') => activeControl # Null]_vars
  /\ []((rendered.activeControl # Null /\ rendered.controlValue # Null) =>
          content = [line1 |-> rendered.activeControl,
                     line2 |-> rendered.controlValue])

\* C17 witness: a knob has been turned and released, and the display has
\* entered idle-cycle mode afterwards.
IdleAfterInteraction ==
  /\ ShowsIdleCycle
  /\ activeControl = Null
  /\ ~buttonDown
  /\ controls.architectureEmphasis # InitialControls.architectureEmphasis

CycleSuccessor(label) ==
  CASE label = "ARCH" -> "PROD"
    [] label = "PROD" -> "SOFT"
    [] label = "SOFT" -> "ARCH"

\* C18, the order: a tick in idle mode moves the cycle from a discipline to
\* its successor, and the position is always one of the three.
CycleAdvancesInOrder ==
  /\ [][(IdleCycleTick /\ idleMode) =>
          disciplines[idleCycle' + 1].name =
            CycleSuccessor(disciplines[idleCycle + 1].name)]_vars
  /\ [](idleCycle \in 0 .. 2)

\* C18, the recurrence: while the display stays idle with no control active,
\* every discipline is shown again and again.
CycleShowsEveryDiscipline ==
  \A label \in DisciplineLabels :
    []<>(~idleMode \/ activeControl # Null \/ (ShowsIdleCycle /\ content.line1 = label))

\* C18, the rest: the position does not change while the display is not in
\* idle-cycle mode.
CycleStillOutsideIdle == [][~idleMode => idleCycle' = idleCycle]_vars

\* C18: in idle-cycle mode each tick advances the displayed discipline in
\* the order ARCH, PROD, SOFT, ARCH; the position is always one of the
\* three; every discipline is shown infinitely often while no interaction
\* occurs; and the position never changes outside idle-cycle mode.
IdleCycleInOrder ==
  /\ CycleAdvancesInOrder
  /\ CycleShowsEveryDiscipline
  /\ CycleStillOutsideIdle

\* C19: from the render that shows a control as active until the interaction
\* ends, neither timer is pending, idle mode is not entered and no tick of
\* the idle cycle fires.
InteractionCancelsTimers ==
  /\ []((activeControl # Null /\ rendered.activeControl # Null) =>
          (~idleTimer /\ ~cycleTimer /\ ~idleMode))
  /\ [][(activeControl # Null /\ rendered.activeControl # Null) =>
          (idleCycle' = idleCycle /\ ~(~idleMode /\ idleMode'))]_vars

\* ------------------------------------------------------------------ dial geometry

InitDial ==
  \E t \in 1 .. MaxTotal : InitOf(0, InitialControls, TrackHeightStyled, t)

NextDial ==
  \/ Render
  \/ MouseEnter
  \/ MouseLeave
  \/ \E index \in 0 .. (total - 1) : LabelClick(index)

\* DialNavigation given a list of 1 to MaxTotal items, any of which a click
\* on its label makes the active one.
SpecDial == InitDial /\ [][NextDial]_vars

\* C20: the rotation of a dial of total >= 1 items is defined; for
\* total >= 2 it is -(90 - activeIdx * 180 / (total - 1)), so that the angle
\* of the active item's label plus the rotation is 0; for total = 1 it is 0.
DialRotationDefined ==
  LET activeIdx == rendered.activeIndex
      rotation == getDialRotation(activeIdx, total)
      label == itemAngle(activeIdx, total)
  IN  /\ Defined(rotation)
      /\ total >= 2 =>
           /\ rotation.num * (total - 1) =
                (activeIdx * 180 - 90 * (total - 1)) * rotation.den
           /\ Defined(label)
           /\ label.num * rotation.den + rotation.num * label.den = 0
      /\ total = 1 => rotation.num = 0

\* ------------------------------------------------------------------ timeline slider

\* The board with the first project that has a timeline as the active one,
\* and the pointer outside the container.
InitTimeline == InitAt(1, InitialControls, TrackHeightStyled)

SpecTimeline == InitTimeline /\ [][Next]_vars

\* A pointer event on the TIME slider: a press on it, or a move of a drag
\* of it.
TimePointerEvent ==
  \E o \in PointerOffsets :
    SliderMouseDown("STAGE", o) \/ SliderMouseMove("STAGE", o)

\* C21: while the active project has no timeline (and has been rendered as
\* the active one), no pointer event on the TIME slider changes
\* timelineProgress: neither a press, nor a move of a drag that began on a
\* project with a timeline and went on across a navigation.
DisabledTimeIsInert ==
  [][(/\ timelineDisabled(activeProjectIndex)
      /\ rendered.activeIndex = activeProjectIndex
      /\ TimePointerEvent) =>
       controls'.timelineProgress = controls.timelineProgress]_vars

\* ------------------------------------------------------------------ wheel over a knob

\* C22: a wheel tick with the pointer over a knob changes that knob's
\* emphasis value only and leaves activeProjectIndex as it is: neither the
\* container's listener, which runs first, nor the knob's handler navigates.
KnobWheelOnlyTurnsKnob ==
  /\ [][(\E k \in Knobs, deltaY \in DeltaYs : WheelOnKnob(k, deltaY)) =>
          activeProjectIndex' = activeProjectIndex]_vars
  /\ [][KnobWheel =>
          /\ activeProjectIndex' = activeProjectIndex
          /\ \A key \in ControlKeys \ {KnobKey(pending.knob)} :
               controls'[key] = controls[key]]_vars

\* ------------------------------------------------------------------ stage on the LCD and in the panel

\* The content panel's names of the five stages, in the order of stages.
panelStages == << "CONCEPT", "DEVELOPMENT", "REFINEMENT", "BUILD", "FINAL" >>

\* C23: for every timelineProgress in [0,100], the stage the LCD shows for a
\* press of the TIME slider is the same one of the five stages as the label
\* the content panel derives from that progress.
LcdStageIsPanelStage ==
  LET p == controls.timelineProgress
  IN  \A i \in 1 .. Len(stages) :
        (sliderControlValue("STAGE", p) = stages[i]) <=>
          (getTimelineStage(p) = panelStages[i])

\* ------------------------------------------------------------------ entering the idle cycle

\* C24: whenever the display enters idle-cycle mode, the first time after
\* start-up and every later time after an interaction, the render that
\* first shows the idle cycle shows ARCH.
IdleCycleStartsAtArch ==
  [][(/\ ~rendered.idleMode
      /\ rendered'.idleMode
      /\ rendered'.activeControl = Null) =>
       content'.line1 = "ARCH"]_vars

=============================================================================
